---- MODULE Spec2Model ----
(***************************************************************************)
(* Portfolio content-management backend (src/app.py): the request handlers *)
(* of the Flask application as actions over the relational tables, the     *)
(* Flask-Login session and the response of the request last served.        *)
(***************************************************************************)
EXTENDS Integers, Sequences, FiniteSets, TLC

VARIABLES
    db,       \* the tables: table name -> (id -> row)
    seq,      \* the storage layer's next identifier of each table
    session,  \* the Flask session: holds "_user_id" when logged in
    resp,     \* the response of the request served last
    log,      \* what the upload helper printed while serving it
    txn       \* the requests in flight (their SQLAlchemy sessions)

vars == <<db, seq, session, resp, log, txn>>

----------------------------------------------------------------------------
(* Bounds of the model *)

MaxAdds == 2      \* rows created in the content and message tables, all together
MaxUsers == 3     \* rows the racing logins create in the users table

----------------------------------------------------------------------------
(* Values *)

None == "None"                      \* Python None, SQL NULL
Txt == {"a", "b"}                   \* texts a form submits
UrlTxt == "http://t"                \* a URL typed into a form's text input
FileName == "f.png"                 \* secure_filename of an uploaded file
Uuids == {"1f"}                     \* uuid4().hex[:8] prefixes
Truthy(v) == v # None /\ v # ""     \* Python truthiness of an Optional[str]

default_email == "admin@example.com"
Emails == {default_email, "x@example.com"}

Tables == {"about", "skills", "education", "experience", "projects",
           "research", "achievements", "blogs", "messages", "users"}
ListTables == {"skills", "education", "experience", "projects",
               "research", "achievements", "blogs"}

NoFiles == <<>>                     \* request.files without any key
NoLog == <<>>                       \* nothing printed
FormGet(form, k) == IF k \in DOMAIN form THEN form[k] ELSE None
HasAll(form, keys) == keys \subseteq DOMAIN form

Ids(t) == DOMAIN db[t]
RECURSIVE Issued(_)
Issued(ts) == IF ts = {} THEN 0
              ELSE LET t == CHOOSE x \in ts : TRUE
                   IN (seq[t] - 1) + Issued(ts \ {t})
CanAdd == Issued(Tables \ {"users"}) < MaxAdds

\* The row of table t the storage layer creates for the column values cols.
Insert(t, cols) == [db EXCEPT ![t] = (seq[t] :> ([id |-> seq[t]] @@ cols)) @@ db[t]]
Remove(t, id) == [db EXCEPT ![t] = [i \in DOMAIN db[t] \ {id} |-> db[t][i]]]
Put(t, id, row) == [db EXCEPT ![t][id] = row]
Bump(t) == [seq EXCEPT ![t] = seq[t] + 1]

----------------------------------------------------------------------------
(* Responses *)

\* status, the Location header, the message flashed, the JSON body (a dict)
Response(status, location, flash, json) ==
    [status |-> status, location |-> location, flash |-> flash, json |-> json]
\* url_for('dashboard', tab=...) of the routes of table t
Dashboard(t) == "dashboard?tab=" \o (IF t = "blogs" THEN "blog" ELSE t)
Redirect(to, flash) == Response(302, to, flash, <<>>)
Abort(status) == Response(status, "", "", <<>>)
Json(status, body) == Response(status, "", "", body)

\* @login_required: the view runs for a logged-in session only; any other
\* request is sent to the login view and the view does not run.
NoSession == <<>>
LoggedIn(uid) == [k \in {"_user_id"} |-> uid]
is_authenticated == "_user_id" \in DOMAIN session

\* A variant of the decorator that runs the view for every session.
login_required_open(view) == view
login_required(view) ==
    IF is_authenticated THEN view
    ELSE /\ log' = NoLog
         /\ resp' = Redirect("login", "Please log in to access this page.")
         /\ UNCHANGED <<db, seq, session, txn>>

----------------------------------------------------------------------------
(* The upload helper *)

\* file is the werkzeug FileStorage's filename (None: no file object), up the
\* storage service's answer to this call: the prefix under which it stored
\* the file, or an exception, raised by upload ("fail") or, after the file
\* was stored, by get_public_url ("no_url").
Raised == {"fail", "no_url"}
\* A variant without the try: it builds the URL whatever the service did.
handle_file_upload_untried(file, subfolder, up) ==
    IF file = None \/ file = "" THEN None
    ELSE subfolder \o "/" \o up \o "_" \o file
handle_file_upload(file, subfolder, up) ==
    IF file = None \/ file = "" THEN None
    ELSE IF up \in Raised THEN None
    ELSE subfolder \o "/" \o up \o "_" \o file

\* What handle_file_upload prints for the file input key: nothing when there
\* is no file to store, else the attempt and the storage service's answer.
Printed(files, ups, key) ==
    IF key \in DOMAIN files /\ files[key] # None /\ files[key] # ""
    THEN <<"Attempting to upload",
           IF ups[key] \in Raised THEN "Upload Failed" ELSE "Upload Successful">>
    ELSE NoLog

\* A variant that assigns the helper's answer without testing it.
Uploaded_unchecked(files, ups, key, subfolder, old) ==
    IF key \in DOMAIN files
    THEN handle_file_upload(files[key], subfolder, ups[key])
    ELSE old

\* `if key in request.files: url = handle_file_upload(...); if url: field = url`
Uploaded(files, ups, key, subfolder, old) ==
    IF key \in DOMAIN files
    THEN LET url == handle_file_upload(files[key], subfolder, ups[key])
         IN IF Truthy(url) THEN url ELSE old
    ELSE old

----------------------------------------------------------------------------
(* Setup and authentication *)

UserByEmail(email) == {i \in Ids("users") : db.users[i].email = email}
NewUser(email) == [email |-> email, password |-> "handled_by_supabase"]

AboutTextFields == {"name", "birthday", "website", "phone", "city", "age",
                    "degree", "email", "freelance_status", "short_bio",
                    "long_bio", "github", "facebook", "linkedin", "whatsapp",
                    "instagram", "twitter"}
AboutUrlFields == {"resume_link", "profile_image", "mini_profile_image"}
AboutFields == AboutTextFields \cup AboutUrlFields
\* About(**kw): the columns not given are NULL
NewAbout(kw) == [f \in AboutFields |-> IF f \in DOMAIN kw THEN kw[f] ELSE None]

create_admin ==
    LET db1 == IF UserByEmail(default_email) = {}
               THEN Insert("users", NewUser(default_email)) ELSE db
        seq1 == IF UserByEmail(default_email) = {} THEN Bump("users") ELSE seq
        db2 == IF Ids("about") = {}
               THEN [db1 EXCEPT !.about =
                        (seq.about :> ([id |-> seq.about]
                                       @@ NewAbout([name |-> "Your Name"])))]
               ELSE db1
        seq2 == IF Ids("about") = {}
                THEN [seq1 EXCEPT !.about = seq.about + 1] ELSE seq1
    IN /\ Ids("about") = {} => CanAdd
       /\ db' = db2
       /\ seq' = seq2
       /\ UNCHANGED <<session, resp, log, txn>>

\* auth is the identity provider's answer to sign_in_with_password.
AuthOutcomes == {"user", "no_user", "AuthApiError", "Exception"}

login(email, auth) ==
    CASE auth = "user" ->
           LET found == UserByEmail(email)
               uid == IF found = {} THEN seq.users
                      ELSE CHOOSE i \in found : \A j \in found : i <= j
           IN /\ db' = IF found = {} THEN Insert("users", NewUser(email)) ELSE db
              /\ seq' = IF found = {} THEN Bump("users") ELSE seq
              /\ session' = LoggedIn(uid)
              /\ log' = NoLog
              /\ resp' = Redirect("dashboard", "")
              /\ UNCHANGED txn
      [] auth = "AuthApiError" ->
           /\ log' = NoLog
           /\ resp' = Response(200, "", "Login failed", <<>>)
           /\ UNCHANGED <<db, seq, session, txn>>
      [] auth = "Exception" ->
           /\ log' = NoLog
           /\ resp' = Response(200, "", "An unexpected error occurred", <<>>)
           /\ UNCHANGED <<db, seq, session, txn>>
      [] OTHER ->
           /\ log' = NoLog
           /\ resp' = Response(200, "", "", <<>>)
           /\ UNCHANGED <<db, seq, session, txn>>

logout ==
    login_required(/\ session' = NoSession
        /\ log' = NoLog
        /\ resp' = Redirect("login", "")
        /\ UNCHANGED <<db, seq, txn>>)

----------------------------------------------------------------------------
(* Contact messages *)

Unread == {i \in Ids("messages") : ~db.messages[i].read}

\* data is request.json or request.form; an empty one is falsy.
api_contact(data) ==
    IF DOMAIN data = {}
    THEN /\ log' = NoLog
         /\ resp' = Json(400, [error |-> "No data provided"])
         /\ UNCHANGED <<db, seq, session, txn>>
    ELSE /\ CanAdd
         /\ db' = Insert("messages",
                         [name |-> FormGet(data, "name"),
                          email |-> FormGet(data, "email"),
                          subject |-> FormGet(data, "subject"),
                          message |-> FormGet(data, "message"),
                          read |-> FALSE])
         /\ seq' = Bump("messages")
         /\ log' = NoLog
         /\ resp' = Json(201, [success |-> TRUE, message |-> "Message sent successfully!"])
         /\ UNCHANGED <<session, txn>>

\* A variant of mark_message_read that flips the flag instead of setting it.
mark_message_read_toggle(id) ==
    login_required(
        IF id \notin Ids("messages")
        THEN /\ log' = NoLog
             /\ resp' = Abort(404)
             /\ UNCHANGED <<db, seq, session, txn>>
        ELSE LET db1 == [db EXCEPT !.messages[id].read = ~@]
             IN /\ db' = db1
                /\ log' = NoLog
                /\ resp' = Json(200, [success |-> TRUE,
                                      unread_count |->
                                         Cardinality({i \in DOMAIN db1.messages :
                                                         ~db1.messages[i].read})])
                /\ UNCHANGED <<seq, session, txn>>)

\* mark_message_read counting before its update reaches the table
mark_message_read_stale(id) ==
    login_required(
        IF id \notin Ids("messages")
        THEN /\ log' = NoLog
             /\ resp' = Abort(404)
             /\ UNCHANGED <<db, seq, session, txn>>
        ELSE /\ db' = [db EXCEPT !.messages[id].read = TRUE]
             /\ log' = NoLog
             /\ resp' = Json(200, [success |-> TRUE,
                                   unread_count |-> Cardinality(Unread)])
             /\ UNCHANGED <<seq, session, txn>>)

mark_message_read(id) ==
    login_required(IF id \notin Ids("messages")
        THEN /\ log' = NoLog
             /\ resp' = Abort(404)
             /\ UNCHANGED <<db, seq, session, txn>>
        ELSE LET db1 == IF ~db.messages[id].read
                        THEN [db EXCEPT !.messages[id].read = TRUE] ELSE db
                 new_count == Cardinality({i \in DOMAIN db1.messages :
                                              ~db1.messages[i].read})
             IN /\ db' = db1
                /\ log' = NoLog
                /\ resp' = Json(200,
                                [success |-> TRUE, unread_count |-> new_count])
                /\ UNCHANGED <<seq, session, txn>>)

\* The dashboard page: it renders the tables and the unread count.
dashboard ==
    login_required(
        /\ log' = NoLog
        /\ resp' = Json(200, [unread_count |-> Cardinality(Unread)])
        /\ UNCHANGED <<db, seq, session, txn>>)

----------------------------------------------------------------------------
(* About *)

BadRequest(printed) ==  \* request.form[k] of a missing key: BadRequestKeyError
    /\ log' = printed
    /\ resp' = Abort(400)
    /\ UNCHANGED <<db, seq, session, txn>>
NotFound ==         \* get_or_404 of a missing row
    /\ log' = NoLog
    /\ resp' = Abort(404)
    /\ UNCHANGED <<db, seq, session, txn>>

\* `if request.form.get(k): field = request.form.get(k)`
FormOr(form, k, old) == IF Truthy(FormGet(form, k)) THEN form[k] ELSE old

\* The assignments of update_about to the loaded (or new) record about.
AboutAssign(about, form, files, ups) ==
    [f \in DOMAIN about |->
        CASE f \in AboutTextFields -> FormGet(form, f)
          [] f = "resume_link" ->
               Uploaded(files, ups, "resume_file", "resumes",
                        FormOr(form, "resume_link", about.resume_link))
          [] f = "profile_image" ->
               Uploaded(files, ups, "image_file", "profile",
                        FormOr(form, "profile_image", about.profile_image))
          [] f = "mini_profile_image" ->
               Uploaded(files, ups, "mini_image_file", "profile",
                        FormOr(form, "mini_profile_image", about.mini_profile_image))
          [] OTHER -> about[f]]

update_about(form, files, ups) ==
    login_required(
        /\ log' = Printed(files, ups, "resume_file")
                     \o Printed(files, ups, "image_file")
                     \o Printed(files, ups, "mini_image_file")
        /\ resp' = Redirect(Dashboard("about"), "About section updated!")
        /\ \/ /\ Ids("about") = {}
              /\ CanAdd
              /\ db' = [db EXCEPT !.about = seq.about :>
                           AboutAssign([id |-> seq.about] @@ NewAbout(<<>>),
                                       form, files, ups)]
              /\ seq' = Bump("about")
           \/ \E id \in Ids("about") :        \* About.query.first()
                 /\ db' = Put("about", id,
                              AboutAssign(db.about[id], form, files, ups))
                 /\ seq' = seq
        /\ UNCHANGED <<session, txn>>)

----------------------------------------------------------------------------
(* The content list tables *)

\* The view of an add route: the required form keys, the new row's columns,
\* what the upload helper printed. The add routes call the upload helper
\* before they read the required inputs.
AddView(t, form, required, cols, printed) ==
    login_required(
        IF ~HasAll(form, required) THEN BadRequest(printed)
        ELSE /\ log' = printed
             /\ resp' = Redirect(Dashboard(t), "")
             /\ CanAdd
             /\ db' = Insert(t, cols)
             /\ seq' = Bump(t)
             /\ UNCHANGED <<session, txn>>)

\* The view of an edit route: get_or_404, the assignments (the required
\* inputs first, the upload after them), commit.
EditView(t, id, form, required, row, flash, printed) ==
    login_required(
        IF id \notin Ids(t) THEN NotFound
        ELSE IF ~HasAll(form, required) THEN BadRequest(NoLog)
        ELSE /\ log' = printed
             /\ resp' = Redirect(Dashboard(t), flash)
             /\ db' = Put(t, id, row)
             /\ UNCHANGED <<seq, session, txn>>)

\* A variant whose delete has no filter.
DeleteView_unfiltered(t, id) ==
    login_required(
        /\ db' = [db EXCEPT ![t] = <<>>]
        /\ log' = NoLog
        /\ resp' = Redirect(Dashboard(t), "")
        /\ UNCHANGED <<seq, session, txn>>)

\* The view of a delete route: Model.query.filter_by(id=id).delete(); commit.
DeleteView(t, id) ==
    login_required(
        /\ db' = Remove(t, id)
        /\ log' = NoLog
        /\ resp' = Redirect(Dashboard(t), "")
        /\ UNCHANGED <<seq, session, txn>>)

\* A row as the public API serialises it.
to_dict(row) == row
\* The view of a public list route: jsonify([r.to_dict() for r in Model.query.all()])
ListView(t) ==
    /\ log' = NoLog
    /\ resp' = Json(200, [items |-> {to_dict(db[t][i]) : i \in Ids(t)}])
    /\ UNCHANGED <<db, seq, session, txn>>

SkillKeys == {"name", "percentage"}
SkillAssign(skill, form, files, ups) ==
    [skill EXCEPT !.name = form["name"], !.percentage = form["percentage"],
                  !.image_url = Uploaded(files, ups, "image_file", "skills", @)]
add_skill(form, files, ups) ==
    AddView("skills", form, SkillKeys,
            [name |-> form["name"], percentage |-> form["percentage"],
             image_url |-> Uploaded(files, ups, "image_file", "skills", None)],
            Printed(files, ups, "image_file"))
edit_skill(id, form, files, ups) ==
    EditView("skills", id, form, SkillKeys,
             SkillAssign(db.skills[id], form, files, ups),
             "Skill updated successfully!",
             Printed(files, ups, "image_file"))
delete_skill(id) == DeleteView("skills", id)
get_skills == ListView("skills")

EducationKeys == {"degree", "institution", "year_range", "description"}
EducationAssign(edu, form, files, ups) ==
    [edu EXCEPT !.degree = form["degree"], !.institution = form["institution"],
                !.year_range = form["year_range"],
                !.description = form["description"],
                !.logo_url = Uploaded(files, ups, "logo_file", "education", @)]
add_education(form, files, ups) ==
    AddView("education", form, EducationKeys,
            [degree |-> form["degree"], institution |-> form["institution"],
             logo_url |-> Uploaded(files, ups, "logo_file", "education", None),
             year_range |-> form["year_range"],
             description |-> form["description"]],
            Printed(files, ups, "logo_file"))
edit_education(id, form, files, ups) ==
    EditView("education", id, form, EducationKeys,
             EducationAssign(db.education[id], form, files, ups),
             "Education updated successfully!",
             Printed(files, ups, "logo_file"))
delete_education(id) == DeleteView("education", id)
get_education == ListView("education")

ExperienceKeys == {"role", "company", "year_range", "description"}
ExperienceAssign(exp, form) ==
    [exp EXCEPT !.role = form["role"], !.company = form["company"],
                !.year_range = form["year_range"],
                !.description = form["description"]]
add_experience(form) ==
    AddView("experience", form, ExperienceKeys,
            [role |-> form["role"], company |-> form["company"],
             year_range |-> form["year_range"],
             description |-> form["description"]], NoLog)
edit_experience(id, form) ==
    EditView("experience", id, form, ExperienceKeys,
             ExperienceAssign(db.experience[id], form),
             "Experience updated successfully!", NoLog)
delete_experience(id) == DeleteView("experience", id)
get_experience == ListView("experience")

ProjectKeys == {"title", "category", "project_link"}
ProjectAssign(proj, form, files, ups) ==
    [proj EXCEPT !.title = form["title"], !.category = form["category"],
                 !.project_link = form["project_link"],
                 !.image_url = Uploaded(files, ups, "image_file", "projects",
                                        FormOr(form, "image_url", @))]
\* A variant that stores the text input whatever the upload returned.
add_project_text_only(form, files, ups) ==
    AddView("projects", form, ProjectKeys,
            [title |-> form["title"], category |-> form["category"],
             image_url |-> FormGet(form, "image_url"),
             project_link |-> form["project_link"]],
            Printed(files, ups, "image_file"))
add_project(form, files, ups) ==
    AddView("projects", form, ProjectKeys,
            [title |-> form["title"], category |-> form["category"],
             image_url |-> Uploaded(files, ups, "image_file", "projects",
                                    FormGet(form, "image_url")),
             project_link |-> form["project_link"]],
            Printed(files, ups, "image_file"))
edit_project(id, form, files, ups) ==
    EditView("projects", id, form, ProjectKeys,
             ProjectAssign(db.projects[id], form, files, ups),
             "Project updated successfully!",
             Printed(files, ups, "image_file"))
delete_project(id) == DeleteView("projects", id)
get_projects == ListView("projects")

ResearchKeys == {"title", "description", "publication_date"}
ResearchAssign(research, form, files, ups) ==
    [research EXCEPT !.title = form["title"],
                     !.publication_date = form["publication_date"],
                     !.link = Uploaded(files, ups, "research_pdf", "research",
                                       form["link"]),
                     !.description = form["description"]]
add_research(form, files, ups) ==
    AddView("research", form, ResearchKeys,
            [title |-> form["title"], description |-> form["description"],
             link |-> Uploaded(files, ups, "research_pdf", "research",
                               FormGet(form, "link")),
             publication_date |-> form["publication_date"]],
            Printed(files, ups, "research_pdf"))
edit_research(id, form, files, ups) ==
    EditView("research", id, form, ResearchKeys \cup {"link"},
             ResearchAssign(db.research[id], form, files, ups),
             "Research updated successfully!",
             Printed(files, ups, "research_pdf"))
delete_research(id) == DeleteView("research", id)
get_research == ListView("research")

AchievementKeys == {"title", "description", "date", "link"}
AchievementAssign(ach, form) ==
    [ach EXCEPT !.title = form["title"], !.description = form["description"],
                !.date = form["date"], !.link = form["link"]]
add_achievement(form) ==
    AddView("achievements", form, AchievementKeys,
            [title |-> form["title"], description |-> form["description"],
             date |-> form["date"], link |-> form["link"]], NoLog)
edit_achievement(id, form) ==
    EditView("achievements", id, form, AchievementKeys,
             AchievementAssign(db.achievements[id], form),
             "Achievement updated successfully!", NoLog)
delete_achievement(id) == DeleteView("achievements", id)
get_achievements == ListView("achievements")

BlogKeys == {"title", "content", "tags", "date"}
BlogAssign(blog, form, files, ups) ==
    [blog EXCEPT !.title = form["title"], !.content = form["content"],
                 !.tags = form["tags"], !.date = form["date"],
                 !.cover_image = Uploaded(files, ups, "cover_file", "blog", @)]
add_blog(form, files, ups) ==
    AddView("blogs", form, BlogKeys,
            [title |-> form["title"], content |-> form["content"],
             tags |-> form["tags"], date |-> form["date"],
             cover_image |-> Uploaded(files, ups, "cover_file", "blog", None)],
            Printed(files, ups, "cover_file"))
edit_blog(id, form, files, ups) ==
    EditView("blogs", id, form, BlogKeys,
             BlogAssign(db.blogs[id], form, files, ups),
             "Blog updated successfully!",
             Printed(files, ups, "cover_file"))
delete_blog(id) == DeleteView("blogs", id)
get_blogs == ListView("blogs")

\* jsonify(about.to_dict() if about else {})
get_about ==
    /\ \/ /\ Ids("about") = {}
          /\ log' = NoLog
          /\ resp' = Json(200, <<>>)
       \/ /\ log' = NoLog
          /\ \E id \in Ids("about") :         \* About.query.first()
                resp' = Json(200, to_dict(db.about[id]))
    /\ UNCHANGED <<db, seq, session, txn>>

----------------------------------------------------------------------------
(* Requests served concurrently: each worker serves one request at a time,
   in its own database session. A session holds the objects it has loaded
   and what the view assigned to them; commit flushes them. *)

Workers == {"w1", "w2"}
Idle == [pc |-> "idle"]
Serving(w, route) == txn[w].pc # "idle" /\ txn[w].route = route
Session(route, id, form, loaded) ==
    [pc |-> "assign", route |-> route, id |-> id, form |-> form,
     loaded |-> loaded, obj |-> loaded]

\* The UPDATE a flush issues for an object: SET names the columns whose
\* value differs from the value loaded, and no other column.
Flush(stored, loaded, obj) ==
    [f \in DOMAIN stored |-> IF obj[f] # loaded[f] THEN obj[f] ELSE stored[f]]

\* update_about, its query: About.query.first(), or a new About() added to
\* the session when there is none (id 0: not yet inserted).
update_about_read(w, form) ==
    /\ txn[w] = Idle
    /\ login_required(
          /\ \/ /\ Ids("about") = {}
                /\ txn' = [txn EXCEPT ![w] =
                              Session("update_about", 0, form, NewAbout(<<>>))]
             \/ \E id \in Ids("about") :
                   txn' = [txn EXCEPT ![w] =
                              Session("update_about", id, form, db.about[id])]
          /\ UNCHANGED <<db, seq, session, resp, log>>)

\* update_about, its assignments (the request carries no file)
update_about_assign(w) ==
    /\ Serving(w, "update_about") /\ txn[w].pc = "assign"
    /\ txn' = [txn EXCEPT ![w].pc = "commit",
                          ![w].obj = AboutAssign(txn[w].loaded, txn[w].form,
                                                 NoFiles, <<>>)]
    /\ UNCHANGED <<db, seq, session, resp, log>>

\* update_about, db.session.commit() and the answer
update_about_commit(w) ==
    /\ Serving(w, "update_about") /\ txn[w].pc = "commit"
    /\ IF txn[w].id = 0
       THEN /\ CanAdd
            /\ db' = Insert("about", txn[w].obj)
            /\ seq' = Bump("about")
       ELSE /\ db' = Put("about", txn[w].id,
                         Flush(db.about[txn[w].id], txn[w].loaded, txn[w].obj))
            /\ seq' = seq
    /\ txn' = [txn EXCEPT ![w] = Idle]
    /\ log' = NoLog
    /\ resp' = Redirect(Dashboard("about"), "About section updated!")
    /\ UNCHANGED session

\* edit_experience, its query: get_or_404
edit_experience_read(w, id, form) ==
    /\ txn[w] = Idle
    /\ login_required(
          IF id \notin Ids("experience") THEN NotFound
          ELSE /\ txn' = [txn EXCEPT ![w] =
                             Session("edit_experience", id, form,
                                     db.experience[id])]
               /\ UNCHANGED <<db, seq, session, resp, log>>)

\* edit_experience, its assignments: a missing input ends the request
edit_experience_assign(w) ==
    /\ Serving(w, "edit_experience") /\ txn[w].pc = "assign"
    /\ IF ~HasAll(txn[w].form, ExperienceKeys)
       THEN /\ txn' = [txn EXCEPT ![w] = Idle]
            /\ log' = NoLog
            /\ resp' = Abort(400)
       ELSE /\ txn' = [txn EXCEPT ![w].pc = "commit",
                                  ![w].obj = ExperienceAssign(txn[w].loaded,
                                                              txn[w].form)]
            /\ UNCHANGED <<resp, log>>
    /\ UNCHANGED <<db, seq, session>>

\* edit_experience, db.session.commit() and the answer
edit_experience_commit(w) ==
    /\ Serving(w, "edit_experience") /\ txn[w].pc = "commit"
    /\ db' = Put("experience", txn[w].id,
                 Flush(db.experience[txn[w].id], txn[w].loaded, txn[w].obj))
    /\ txn' = [txn EXCEPT ![w] = Idle]
    /\ log' = NoLog
    /\ resp' = Redirect(Dashboard("experience"),
                        "Experience updated successfully!")
    /\ UNCHANGED <<seq, session>>

\* create-admin, up to its query for About: the user record, then
\* `if not About.query.first()`
create_admin_read(w) ==
    /\ txn[w] = Idle
    /\ db' = IF UserByEmail(default_email) = {}
             THEN Insert("users", NewUser(default_email)) ELSE db
    /\ seq' = IF UserByEmail(default_email) = {} THEN Bump("users") ELSE seq
    /\ txn' = IF Ids("about") = {}
              THEN [txn EXCEPT ![w] =
                       Session("create_admin", 0, <<>>,
                               NewAbout([name |-> "Your Name"]))]
              ELSE txn
    /\ UNCHANGED <<session, resp, log>>

\* create-admin, db.session.add(About(name="Your Name")); db.session.commit()
create_admin_commit(w) ==
    /\ Serving(w, "create_admin")
    /\ CanAdd
    /\ db' = Insert("about", txn[w].obj)
    /\ seq' = Bump("about")
    /\ txn' = [txn EXCEPT ![w] = Idle]
    /\ UNCHANGED <<session, resp, log>>

\* login, a POST the identity provider accepts, up to its query:
\* User.query.filter_by(email=email).first() (id 0: no record found). A
\* POST the provider refuses ends in this step.
login_read(w, email, auth) ==
    /\ txn[w] = Idle
    /\ IF auth = "user"
       THEN LET found == UserByEmail(email)
                id == IF found = {} THEN 0
                      ELSE CHOOSE i \in found : \A j \in found : i <= j
            IN /\ txn' = [txn EXCEPT ![w] =
                             [Session("login", id, [email |-> email],
                                      NewUser(email)) EXCEPT !.pc = "commit"]]
               /\ UNCHANGED <<db, seq, session, resp, log>>
       ELSE login(email, auth)

\* login, from `if not user:` to the answer: the record found is bound to
\* the session; when none was found a record is added and committed. The
\* columns of User are declared outside src/: with no unique email the
\* INSERT stores a second record for an email stored meanwhile, with a
\* unique email the commit raises and `except Exception` answers.
login_commit(w) ==
    /\ Serving(w, "login")
    /\ txn' = [txn EXCEPT ![w] = Idle]
    /\ log' = NoLog
    /\ IF txn[w].id # 0
       THEN /\ session' = LoggedIn(txn[w].id)
            /\ resp' = Redirect("dashboard", "")
            /\ UNCHANGED <<db, seq>>
       ELSE \/ /\ Cardinality(Ids("users")) < MaxUsers
               /\ db' = Insert("users", txn[w].obj)
               /\ seq' = Bump("users")
               /\ session' = LoggedIn(seq.users)
               /\ resp' = Redirect("dashboard", "")
            \/ /\ UserByEmail(txn[w].form.email) # {}
               /\ resp' = Response(200, "", "An unexpected error occurred", <<>>)
               /\ UNCHANGED <<db, seq, session>>

----------------------------------------------------------------------------
Init ==
    /\ db = [t \in Tables |-> <<>>]
    /\ log = NoLog
    /\ seq = [t \in Tables |-> 1]
    /\ session = NoSession
    /\ resp = Response(0, "", "", <<>>)
    /\ txn = [w \in Workers |-> Idle]

----------------------------------------------------------------------------
(* The requests the model sends *)

Complete(keys, txt) == {[k \in keys |-> v] : v \in txt}
Partial(keys) == {[k \in keys \ {f} |-> "a"] : f \in keys}
\* The forms that leave a required input out: every one of them, or one.
Lacking(keys, all) ==
    IF all THEN Partial(keys) ELSE {CHOOSE f \in Partial(keys) : TRUE}
With(form, k, v) == (k :> v) @@ form

\* request.files and the storage service's answers for the file input key:
\* no such input, an input left empty, a file stored, a file refused, a file
\* stored whose URL lookup raised.
FileCases(key) ==
    {[files |-> NoFiles, ups |-> <<>>], [files |-> (key :> ""), ups |-> <<>>]}
    \cup {[files |-> (key :> FileName), ups |-> (key :> u)] :
             u \in Uuids \cup Raised}

\* The cases but the input left empty, which the helper treats as no file,
\* and the failed URL lookup, which it treats as a refused file.
FileOrNone(key) ==
    {c \in FileCases(key) :
        {c.files[k] : k \in DOMAIN c.files} \cap {""} = {}
        /\ {c.ups[k] : k \in DOMAIN c.ups} \cap {"no_url"} = {}}

\* The complete forms with the cases of the file input key (all of them, or
\* all but the empty input), and the forms that leave a required input out,
\* without a file.
Requests(complete, partial, key, all) ==
    {[form |-> f, files |-> c.files, ups |-> c.ups] :
        f \in complete, c \in IF all THEN FileCases(key) ELSE FileOrNone(key)}
    \cup {[form |-> f, files |-> NoFiles, ups |-> <<>>] : f \in partial}

\* The identifiers a request names: those stored, and one that is not.
RowIds(t) == Ids(t) \cup {seq[t]}
\* The requests sent to the identifier i of table t: all of them to a stored
\* one, one of them to the one that is not.
SentTo(t, i, requests) ==
    IF i \in Ids(t) THEN requests ELSE {CHOOSE r \in requests : TRUE}
ContactData(txt) ==
    {<<>>} \cup Complete({"name", "email", "subject", "message"}, txt)

SkillRequests(txt, all) ==
    Requests(Complete(SkillKeys, txt), Lacking(SkillKeys, all), "image_file", all)
EducationRequests(txt, all) ==
    Requests(Complete(EducationKeys, txt), Lacking(EducationKeys, all),
             "logo_file", all)
ExperienceForms(txt, all) ==
    Complete(ExperienceKeys, txt) \cup Lacking(ExperienceKeys, all)
\* image_url: a text input of the project form that may be absent or empty
ProjectRequests(txt, urls, all) ==
    Requests(Complete(ProjectKeys, txt)
               \cup {With(f, "image_url", u) :
                        f \in Complete(ProjectKeys, txt), u \in urls},
             Lacking(ProjectKeys, all), "image_file", all)
\* link: required by edit_research, optional for add_research
ResearchRequests(txt, urls, all) ==
    Requests({With(f, "link", u) :
                 f \in Complete(ResearchKeys, txt), u \in urls},
             Complete(ResearchKeys, txt) \cup Lacking(ResearchKeys, all),
             "research_pdf", all)
AchievementForms(txt, all) ==
    Complete(AchievementKeys, txt) \cup Lacking(AchievementKeys, all)
BlogRequests(txt, all) ==
    Requests(Complete(BlogKeys, txt), Lacking(BlogKeys, all), "cover_file", all)

\* update_about requests: every text input sent, with one of the three URL
\* text inputs absent, empty or filled and its file input; or one text input
\* (of those in omit) left out.
AboutSlots == {<<"resume_link", "resume_file">>, <<"profile_image", "image_file">>,
               <<"mini_profile_image", "mini_image_file">>}
SlotRequests(sl, txt, urls, all) ==
    Requests(Complete(AboutTextFields, txt)
               \cup {With(f, sl[1], u) :
                        f \in Complete(AboutTextFields, txt), u \in urls},
             {}, sl[2], all)
AboutRequests(slots, txt, urls, omit, all) ==
    UNION {SlotRequests(sl, txt, urls, all) : sl \in slots}
    \cup {[form |-> [k \in AboutTextFields \ {f} |-> "a"],
           files |-> NoFiles, ups |-> <<>>] : f \in omit}

Lean == {"a"}             \* one text: the requests that need no second one
UrlTexts == {"", UrlTxt}  \* a URL text input left empty, or filled
LeanSkills == SkillRequests(Lean, FALSE)
LeanEducation == EducationRequests(Lean, FALSE)
LeanExperience == ExperienceForms(Lean, FALSE)
LeanProjects == ProjectRequests(Lean, {}, FALSE)
LeanResearch == ResearchRequests(Lean, {UrlTxt}, FALSE)
LeanAchievements == AchievementForms(Lean, FALSE)
LeanBlogs == BlogRequests(Lean, FALSE)
RichSkills == SkillRequests(Txt, FALSE)
RichEducation == EducationRequests(Txt, FALSE)
RichExperience == ExperienceForms(Txt, FALSE)
RichProjects == ProjectRequests(Txt, UrlTexts, FALSE)
RichResearch == ResearchRequests(Txt, UrlTexts, FALSE)
RichAchievements == AchievementForms(Txt, FALSE)
RichBlogs == BlogRequests(Txt, FALSE)
LeanAbout == AboutRequests({<<"resume_link", "resume_file">>}, Lean, {}, {"website"}, FALSE)
SlotsAbout == AboutRequests(AboutSlots, Lean, {UrlTxt}, {}, FALSE)
RichAbout == AboutRequests(AboutSlots, Txt, UrlTexts, AboutTextFields, TRUE)
LeanContact == ContactData(Lean)
RichContact == ContactData(Txt)

Sessions(emails, answers) ==
    \/ \E e \in emails, a \in answers : login(e, a)
    \/ logout
Admin == Sessions({default_email}, {"user"})
SignIn == \E e \in {default_email} : login(e, "user")

Inbox(data) ==
    \/ \E d \in data : api_contact(d)
    \/ \E i \in RowIds("messages") : mark_message_read(i)

Abouts(requests) ==
    \/ \E r \in requests : update_about(r.form, r.files, r.ups)
    \/ get_about

Adds(skill, edu, exp, proj, res, ach, blog) ==
    \/ \E r \in skill : add_skill(r.form, r.files, r.ups)
    \/ \E r \in edu : add_education(r.form, r.files, r.ups)
    \/ \E f \in exp : add_experience(f)
    \/ \E r \in proj : add_project(r.form, r.files, r.ups)
    \/ \E r \in res : add_research(r.form, r.files, r.ups)
    \/ \E f \in ach : add_achievement(f)
    \/ \E r \in blog : add_blog(r.form, r.files, r.ups)
LeanAdds == Adds(LeanSkills, LeanEducation, LeanExperience, LeanProjects,
                 LeanResearch, LeanAchievements, LeanBlogs)
RichAdds == Adds(RichSkills, RichEducation, RichExperience, RichProjects,
                 RichResearch, RichAchievements, RichBlogs)

Edits(skill, edu, exp, proj, res, ach, blog) ==
    \/ \E i \in RowIds("skills") : \E r \in SentTo("skills", i, skill) :
          edit_skill(i, r.form, r.files, r.ups)
    \/ \E i \in RowIds("education") : \E r \in SentTo("education", i, edu) :
          edit_education(i, r.form, r.files, r.ups)
    \/ \E i \in RowIds("experience") : \E f \in SentTo("experience", i, exp) :
          edit_experience(i, f)
    \/ \E i \in RowIds("projects") : \E r \in SentTo("projects", i, proj) :
          edit_project(i, r.form, r.files, r.ups)
    \/ \E i \in RowIds("research") : \E r \in SentTo("research", i, res) :
          edit_research(i, r.form, r.files, r.ups)
    \/ \E i \in RowIds("achievements") :
          \E f \in SentTo("achievements", i, ach) : edit_achievement(i, f)
    \/ \E i \in RowIds("blogs") : \E r \in SentTo("blogs", i, blog) :
          edit_blog(i, r.form, r.files, r.ups)
LeanEdits == Edits(LeanSkills, LeanEducation, LeanExperience, LeanProjects,
                   LeanResearch, LeanAchievements, LeanBlogs)
\* The routes of the tables that hold an uploaded file's URL, with the URL
\* text inputs of projects and research absent, empty or filled.
UrlProjects == ProjectRequests(Lean, UrlTexts, FALSE)
UrlResearch == ResearchRequests(Lean, UrlTexts, FALSE)
UrlAdds ==
    \/ \E r \in LeanSkills : add_skill(r.form, r.files, r.ups)
    \/ \E r \in LeanEducation : add_education(r.form, r.files, r.ups)
    \/ \E r \in UrlProjects : add_project(r.form, r.files, r.ups)
    \/ \E r \in UrlResearch : add_research(r.form, r.files, r.ups)
    \/ \E r \in LeanBlogs : add_blog(r.form, r.files, r.ups)
UrlEdits ==
    \/ \E i \in Ids("skills"), r \in LeanSkills :
          edit_skill(i, r.form, r.files, r.ups)
    \/ \E i \in Ids("education"), r \in LeanEducation :
          edit_education(i, r.form, r.files, r.ups)
    \/ \E i \in Ids("projects"), r \in UrlProjects :
          edit_project(i, r.form, r.files, r.ups)
    \/ \E i \in Ids("research"), r \in UrlResearch :
          edit_research(i, r.form, r.files, r.ups)
    \/ \E i \in Ids("blogs"), r \in LeanBlogs :
          edit_blog(i, r.form, r.files, r.ups)

Deletes ==
    \/ \E i \in RowIds("skills") : delete_skill(i)
    \/ \E i \in RowIds("education") : delete_education(i)
    \/ \E i \in RowIds("experience") : delete_experience(i)
    \/ \E i \in RowIds("projects") : delete_project(i)
    \/ \E i \in RowIds("research") : delete_research(i)
    \/ \E i \in RowIds("achievements") : delete_achievement(i)
    \/ \E i \in RowIds("blogs") : delete_blog(i)

Gets ==
    \/ get_skills \/ get_education \/ get_experience \/ get_projects
    \/ get_research \/ get_achievements \/ get_blogs

\* Every route of the application, one request served at a time.
Next ==
    \/ create_admin \/ Sessions({default_email}, AuthOutcomes) \/ dashboard
    \/ Inbox(LeanContact) \/ Abouts(LeanAbout)
    \/ LeanAdds \/ LeanEdits \/ Deletes \/ Gets
Spec == Init /\ [][Next]_vars

\* Creating content and reading it back.
NextAdd == SignIn \/ RichAdds \/ Gets
SpecAdd == Init /\ [][NextAdd]_vars

\* Editing the records that hold the URL of an uploaded file.
NextEdit == SignIn \/ UrlAdds \/ UrlEdits \/ Abouts(SlotsAbout)
SpecEdit == Init /\ [][NextEdit]_vars

\* Deleting content and reading it back.
NextDelete == SignIn \/ LeanAdds \/ Deletes \/ Gets
SpecDelete == Init /\ [][NextDelete]_vars

\* The About record, every input of its form used.
NextAbout == create_admin \/ Admin \/ Abouts(RichAbout)
SpecAbout == Init /\ [][NextAbout]_vars

\* The inbox and the login.
NextInbox == create_admin \/ Sessions(Emails, AuthOutcomes) \/ Inbox(RichContact)
SpecInbox == Init /\ [][NextInbox]_vars

\* Logins served by two workers, and runs of create-admin beside them.
NextLogin ==
    \/ create_admin
    \/ logout
    \/ \E w \in Workers :
          \/ \E e \in Emails, a \in AuthOutcomes : login_read(w, e, a)
          \/ login_commit(w)
SpecLogin == Init /\ [][NextLogin]_vars

\* The callers of the upload helper, one of each kind (a URL field with no
\* text input, with an optional one, the three of About), with every case of
\* the file input.
UploadBlogs == BlogRequests(Lean, TRUE)
UploadProjects == ProjectRequests(Lean, {UrlTxt}, TRUE)
UploadAbout == AboutRequests(AboutSlots, Lean, {UrlTxt}, {}, TRUE)
NextUpload ==
    \/ SignIn
    \/ \E r \in UploadBlogs : add_blog(r.form, r.files, r.ups)
    \/ \E i \in Ids("blogs"), r \in UploadBlogs :
          edit_blog(i, r.form, r.files, r.ups)
    \/ \E r \in UploadProjects : add_project(r.form, r.files, r.ups)
    \/ \E i \in Ids("projects"), r \in UploadProjects :
          edit_project(i, r.form, r.files, r.ups)
    \/ \E r \in UploadAbout : update_about(r.form, r.files, r.ups)
SpecUpload == Init /\ [][NextUpload]_vars

\* Two workers serving update_about, edit_experience and create-admin step
\* by step. Two requests that edit one record differ in the input they change.
ConcAbout ==
    {With(f, k, "b") : f \in Complete(AboutTextFields, Lean),
                       k \in {"name", "website"}}
ConcExperience ==
    {With(f, k, "b") : f \in Complete(ExperienceKeys, Lean),
                       k \in {"role", "company"}}
    \cup Lacking(ExperienceKeys, FALSE)
NextConc ==
    \/ Admin
    \/ \E f \in Complete(ExperienceKeys, Lean) : add_experience(f)
    \/ get_about
    \/ get_experience
    \/ \E w \in Workers :
          \/ \E f \in ConcAbout : update_about_read(w, f)
          \/ update_about_assign(w)
          \/ update_about_commit(w)
          \/ \E f \in ConcExperience, i \in RowIds("experience") :
                edit_experience_read(w, i, f)
          \/ edit_experience_assign(w)
          \/ edit_experience_commit(w)
          \/ create_admin_read(w)
          \/ create_admin_commit(w)
SpecConc == Init /\ [][NextConc]_vars

----------------------------------------------------------------------------
(* The unread count *)

\* The count a mark-read request for the stored message i returns.
Counted(i, n) ==
    is_authenticated /\ mark_message_read(i) => resp'.json.unread_count = n

\* C1 as stated: marking a stored message read returns a count exactly one
\* less than the number of unread messages before the request, and never a
\* negative one.
C1_AlwaysOneLess ==
    [][\A i \in Ids("messages") :
          /\ Counted(i, Cardinality(Unread) - 1)
          /\ is_authenticated /\ mark_message_read(i)
                => resp'.json.unread_count >= 0]_vars

\* C1, amended: marking a stored message read returns the number of unread
\* messages before the request, less one when that message was unread and
\* unchanged when it was already read; the count is never negative.
C1_UnreadCount ==
    [][\A i \in Ids("messages") :
          /\ Counted(i, Cardinality(Unread) - (IF i \in Unread THEN 1 ELSE 0))
          /\ is_authenticated /\ mark_message_read(i)
                => resp'.json.unread_count >= 0]_vars

\* A mark-read response that counts one unread message of two stored: an
\* unread message was marked while another stayed unread.
C1_Witness ==
    /\ "unread_count" \in DOMAIN resp.json
    /\ resp.json.unread_count = 1
    /\ Cardinality(Ids("messages")) = 2
    /\ Cardinality(Unread) = 1

----------------------------------------------------------------------------
(* The login *)

\* C8: a login POST the identity provider does not accept (an auth error,
\* any other exception, an answer without a user) flashes a message and
\* leaves the session logged out; a session becomes logged in only by a
\* login the provider answered with a user.
C8_RefusedLoginFlashes ==
    [][(\A e \in Emails, a \in AuthOutcomes \ {"user"} :
           (~is_authenticated /\ login(e, a))
              => (resp'.flash # "" /\ session' = NoSession))
       /\ ((~is_authenticated /\ session' # NoSession)
              => \E e \in Emails : login(e, "user"))]_vars

----------------------------------------------------------------------------
(* The routes of a list table, for the statements below *)

FormsOnly(forms) == {[form |-> f, files |-> NoFiles, ups |-> <<>>] : f \in forms}

AddOf(t, r) ==
    CASE t = "skills" -> add_skill(r.form, r.files, r.ups)
      [] t = "education" -> add_education(r.form, r.files, r.ups)
      [] t = "experience" -> add_experience(r.form)
      [] t = "projects" -> add_project(r.form, r.files, r.ups)
      [] t = "research" -> add_research(r.form, r.files, r.ups)
      [] t = "achievements" -> add_achievement(r.form)
      [] t = "blogs" -> add_blog(r.form, r.files, r.ups)

EditOf(t, i, r) ==
    CASE t = "skills" -> edit_skill(i, r.form, r.files, r.ups)
      [] t = "education" -> edit_education(i, r.form, r.files, r.ups)
      [] t = "experience" -> edit_experience(i, r.form)
      [] t = "projects" -> edit_project(i, r.form, r.files, r.ups)
      [] t = "research" -> edit_research(i, r.form, r.files, r.ups)
      [] t = "achievements" -> edit_achievement(i, r.form)
      [] t = "blogs" -> edit_blog(i, r.form, r.files, r.ups)

DeleteOf(t, i) ==
    CASE t = "skills" -> delete_skill(i)
      [] t = "education" -> delete_education(i)
      [] t = "experience" -> delete_experience(i)
      [] t = "projects" -> delete_project(i)
      [] t = "research" -> delete_research(i)
      [] t = "achievements" -> delete_achievement(i)
      [] t = "blogs" -> delete_blog(i)

GetOf(t) ==
    CASE t = "skills" -> get_skills
      [] t = "education" -> get_education
      [] t = "experience" -> get_experience
      [] t = "projects" -> get_projects
      [] t = "research" -> get_research
      [] t = "achievements" -> get_achievements
      [] t = "blogs" -> get_blogs

\* The tables whose rows hold an uploaded file's URL: the column, the file
\* input that sets it, the text input that sets it (None: there is none).
UploadTables == {"skills", "education", "projects", "research", "blogs"}
UrlField(t) ==
    CASE t = "skills" -> "image_url" [] t = "education" -> "logo_url"
      [] t = "projects" -> "image_url" [] t = "research" -> "link"
      [] t = "blogs" -> "cover_image"
FileKey(t) ==
    CASE t = "skills" -> "image_file" [] t = "education" -> "logo_file"
      [] t = "projects" -> "image_file" [] t = "research" -> "research_pdf"
      [] t = "blogs" -> "cover_file"
UrlInput(t) ==
    CASE t = "projects" -> "image_url" [] t = "research" -> "link"
      [] OTHER -> None

LeanRequests(t) ==
    CASE t = "skills" -> LeanSkills [] t = "education" -> LeanEducation
      [] t = "experience" -> FormsOnly(LeanExperience)
      [] t = "projects" -> LeanProjects [] t = "research" -> LeanResearch
      [] t = "achievements" -> FormsOnly(LeanAchievements)
      [] t = "blogs" -> LeanBlogs

\* Every row but row i of table t is stored after the step as before it.
OthersKept(t, i) ==
    \A u \in Tables : \A j \in Ids(u) :
        (u # t \/ j # i) => (j \in DOMAIN db'[u] /\ db'[u][j] = db[u][j])

\* The step answers with the redirect to the dashboard tab of table t, as the
\* admin routes of t do when they have run to their end.
Answered(t) == resp'.status = 302 /\ resp'.location = Dashboard(t)
AnsweredOf(ts) == {t \in ts : Answered(t)}

\* The upload helper was called once in the step and printed its failure.
Refused == log' = <<"Attempting to upload", "Upload Failed">>

\* The files of the request r make it an upload that the storage refused.
UploadFailed(r, key) ==
    key \in DOMAIN r.files /\ r.files[key] = FileName /\ r.ups[key] \in Raised

----------------------------------------------------------------------------
(* Editing *)

\* The columns the request r submits a value for: its form inputs, and the
\* URL column of a file input it carries.
Submitted(r, url, key) ==
    DOMAIN r.form \cup (IF key \in DOMAIN r.files THEN {url} ELSE {})
SubmittedAbout(r) ==
    DOMAIN r.form \cup {sl[1] : sl \in {x \in AboutSlots : x[2] \in DOMAIN r.files}}

\* C2: an edit request changes only the fields it submits; every other field
\* of the record, and every other record, keeps its value.
C2_EditsOnlySubmitted ==
    [][is_authenticated =>
        /\ \A t \in ListTables : \A r \in LeanRequests(t) : \A i \in Ids(t) :
              EditOf(t, i, r) =>
                 /\ OthersKept(t, i)
                 /\ \A f \in DOMAIN db[t][i] :
                       f \notin Submitted(r, IF t \in UploadTables
                                             THEN UrlField(t) ELSE None,
                                          IF t \in UploadTables
                                             THEN FileKey(t) ELSE None)
                          => db'[t][i][f] = db[t][i][f]
        /\ \A r \in LeanAbout : \A i \in Ids("about") :
              update_about(r.form, r.files, r.ups) =>
                 /\ OthersKept("about", i)
                 /\ \A f \in DOMAIN db.about[i] :
                       f \notin SubmittedAbout(r)
                          => db'.about[i][f] = db.about[i][f]]_vars

\* The requests with the URL text inputs absent, empty or filled.
UrlRequests(t) ==
    CASE t = "projects" -> UrlProjects
      [] t = "research" -> UrlResearch
      [] OTHER -> LeanRequests(t)

\* C3 as stated: when the upload of an edit request fails, the URL field the
\* upload would have set holds the value stored before the request.
C3_FailedUploadKeepsStored ==
    [][(is_authenticated /\ Refused) =>
        /\ \A t \in AnsweredOf(UploadTables) :
           \A r \in UrlRequests(t) : \A i \in Ids(t) :
              (UploadFailed(r, FileKey(t)) /\ EditOf(t, i, r))
                 => db'[t][i][UrlField(t)] = db[t][i][UrlField(t)]
        /\ \A t \in AnsweredOf({"about"}) :
           \A sl \in AboutSlots : \A r \in SlotsAbout : \A i \in Ids(t) :
              (UploadFailed(r, sl[2]) /\ update_about(r.form, r.files, r.ups))
                 => db'.about[i][sl[1]] = db.about[i][sl[1]]]_vars

\* What the text inputs of the form alone make of a URL field that holds old:
\* the research link is a required input and always assigned, the other URL
\* text inputs are assigned when filled, and three tables have none.
TextOr(t, form, old) ==
    IF t = "research" THEN (IF "link" \in DOMAIN form THEN form["link"] ELSE old)
    ELSE IF t = "projects" THEN FormOr(form, "image_url", old)
    ELSE old

\* C3, amended: when the upload of an edit request fails, the URL field the
\* upload would have set holds what the text inputs of the request alone give
\* it: the URL text submitted with the request where there is one (the
\* research link always, image_url and the three About fields when filled),
\* and otherwise the value stored before the request.
C3_FailedUploadSetsNothing ==
    [][(is_authenticated /\ Refused) =>
        /\ \A t \in AnsweredOf(UploadTables) :
           \A r \in UrlRequests(t) : \A i \in Ids(t) :
              (UploadFailed(r, FileKey(t)) /\ EditOf(t, i, r))
                 => db'[t][i][UrlField(t)]
                       = TextOr(t, r.form, db[t][i][UrlField(t)])
        /\ \A t \in AnsweredOf({"about"}) :
           \A sl \in AboutSlots : \A r \in SlotsAbout : \A i \in Ids(t) :
              (UploadFailed(r, sl[2]) /\ update_about(r.form, r.files, r.ups))
                 => db'.about[i][sl[1]]
                       = FormOr(r.form, sl[1], db.about[i][sl[1]])]_vars

\* An edit whose upload failed has answered, and the row it edited holds a URL.
C3_Witness ==
    /\ log = <<"Attempting to upload", "Upload Failed">>
    /\ resp.flash = "Skill updated successfully!"
    /\ \E i \in Ids("skills") : Truthy(db.skills[i].image_url)

\* C4: an edit or a delete request naming an identifier no record has
\* answers not-found and leaves the stored state unchanged.
C4_MissingIdNotFound ==
    [][is_authenticated =>
        \A t \in ListTables : \A r \in LeanRequests(t) :
            (seq[t] \notin Ids(t) /\ (EditOf(t, seq[t], r) \/ DeleteOf(t, seq[t])))
               => (resp'.status = 404 /\ db' = db)]_vars

----------------------------------------------------------------------------
(* Deleting *)

\* The body of a public list response is the rows of table t as stored.
Returned(t) ==
    /\ "items" \in DOMAIN resp'.json
    /\ resp'.json.items = {db[t][i] : i \in Ids(t)}
    /\ {x.id : x \in resp'.json.items} = Ids(t)

\* C5: a delete request for the stored record i removes it and no other
\* record; a record once removed is in no later state, so that every later
\* public GET of the table, which returns the rows stored, omits it and
\* returns every other record unchanged.
C5_DeleteRemoves ==
    [][\A t \in ListTables :
        /\ is_authenticated =>
              \A i \in Ids(t) :
                  DeleteOf(t, i) => (i \notin DOMAIN db'[t] /\ OthersKept(t, i))
        /\ \A i \in 1..(seq[t] - 1) : i \notin Ids(t) => i \notin DOMAIN db'[t]
        /\ (resp'.status = 200 /\ GetOf(t)) => Returned(t)]_vars

\* A GET has returned the one row left of two after the other's delete.
C5_Witness ==
    /\ "items" \in DOMAIN resp.json
    /\ Cardinality(resp.json.items) = 1
    /\ \E t \in ListTables : seq[t] = 3 /\ Cardinality(Ids(t)) = 1

----------------------------------------------------------------------------
(* Adding *)

RichRequests(t) ==
    CASE t = "skills" -> RichSkills [] t = "education" -> RichEducation
      [] t = "experience" -> FormsOnly(RichExperience)
      [] t = "projects" -> RichProjects [] t = "research" -> RichResearch
      [] t = "achievements" -> FormsOnly(RichAchievements)
      [] t = "blogs" -> RichBlogs

\* The add request r has stored exactly one record, in table t, and every
\* record stored before is stored as before.
OneAdded(t) ==
    /\ seq[t] \notin Ids(t)
    /\ DOMAIN db'[t] = Ids(t) \cup {seq[t]}
    /\ \A u \in Tables \ {t} : DOMAIN db'[u] = DOMAIN db[u]
    /\ OthersKept(t, seq[t])

\* C6 as stated: an add request stores exactly one new record, every field
\* of which that the form has an input for holds that input, and the next
\* public GET returns it with the records stored before.
C6_AddStoresFormFields ==
    [][is_authenticated =>
        \A t \in ListTables :
           /\ \A u \in AnsweredOf({t}) : \A r \in RichRequests(t) :
                 AddOf(t, r) =>
                    /\ OneAdded(t)
                    /\ \A f \in DOMAIN db'[t][seq[t]] \cap DOMAIN r.form :
                          db'[t][seq[t]][f] = r.form[f]
           /\ (resp'.status = 200 /\ GetOf(t)) => Returned(t)]_vars

\* The URL the storage service gave the file of the request r, None if the
\* request has no file or the service refused it.
StoredUrl(t, r) ==
    IF t \in UploadTables /\ FileKey(t) \in DOMAIN r.files
    THEN handle_file_upload(r.files[FileKey(t)],
                            IF t = "blogs" THEN "blog" ELSE t,
                            r.ups[FileKey(t)])
    ELSE None

\* C6, amended: an add request that carries every required input stores
\* exactly one new record; its text fields equal the submitted form inputs;
\* its URL field holds the URL of the uploaded file when the request carries
\* a file the storage accepted, else the URL text input when the form has one
\* (projects, research), else nothing; and the next public GET of the table
\* returns that record together with all records stored before.
C6_AddStoresSubmitted ==
    [][is_authenticated =>
        \A t \in ListTables :
           /\ \A u \in AnsweredOf({t}) : \A r \in RichRequests(t) :
                 AddOf(t, r) =>
                    /\ OneAdded(t)
                    /\ \A f \in DOMAIN db'[t][seq[t]] \ {"id"} :
                          db'[t][seq[t]][f] =
                             IF t \in UploadTables /\ f = UrlField(t)
                             THEN IF Truthy(StoredUrl(t, r)) THEN StoredUrl(t, r)
                                  ELSE FormGet(r.form, UrlInput(t))
                             ELSE r.form[f]
           /\ (resp'.status = 200 /\ GetOf(t)) => Returned(t)]_vars

\* A GET has returned two projects, one of them with an uploaded image.
C6_Witness ==
    /\ "items" \in DOMAIN resp.json
    /\ Cardinality(resp.json.items) = 2
    /\ Cardinality(Ids("projects")) = 2
    /\ \E i \in Ids("projects") :
          db.projects[i].image_url = "projects/1f_f.png"

----------------------------------------------------------------------------
(* Access *)

ContentTables == Tables \ {"users", "messages"}

----------------------------------------------------------------------------
(* Concurrent edits *)

\* C9: when the requests of two workers edit one record, the record stored
\* by a commit is the record the committing request produces when served
\* alone, on the record it loaded or on the record stored at its commit:
\* it mixes in no value written by the other request.
C9_LastWriteWins ==
    [][\A w \in Workers :
        /\ (update_about_commit(w) /\ txn[w].id # 0) =>
              db'.about[txn[w].id] \in
                 {AboutAssign(row, txn[w].form, NoFiles, <<>>) :
                     row \in {txn[w].loaded, db.about[txn[w].id]}}
        /\ edit_experience_commit(w) =>
              db'.experience[txn[w].id] \in
                 {ExperienceAssign(row, txn[w].form) :
                     row \in {txn[w].loaded, db.experience[txn[w].id]}}]_vars

\* C10: at most one About record is stored, the one the public GET returns.
C10_AboutSingleton == Cardinality(Ids("about")) <= 1

----------------------------------------------------------------------------
(* The upload helper *)

\* The request r carries a file to store under the input key, and the
\* storage service stored it and gave its URL.
HasFile(r, key) == key \in DOMAIN r.files /\ r.files[key] \notin {None, ""}
Accepted(r, key) == HasFile(r, key) /\ r.ups[key] \notin Raised
PublicUrl(folder, r, key) == folder \o "/" \o r.ups[key] \o "_" \o r.files[key]
\* The uploads the step attempted, and those the request r has a file for.
Attempts == Cardinality({k \in DOMAIN log' : log'[k] = "Attempting to upload"})
Files(r) == Cardinality({sl \in AboutSlots : HasFile(r, sl[2])})
SlotFolder(sl) == IF sl[1] = "resume_link" THEN "resumes" ELSE "profile"
UploadRequests(t) == IF t = "blogs" THEN UploadBlogs ELSE UploadProjects

\* C11: a call of handle_file_upload attempts the upload once when the
\* request carries a file with a name and not at all otherwise; the URL field
\* of the edited record holds the public URL of the file when the storage
\* stored it and gave its URL, and is otherwise not written by the upload:
\* it holds what the text inputs give it, the stored value if they give none.
C11_UploadOnce ==
    [][is_authenticated =>
        /\ \A t \in AnsweredOf({"blogs", "projects"}) :
           \A r \in UploadRequests(t) : \A i \in Ids(t) :
              EditOf(t, i, r) =>
                 /\ Attempts = IF HasFile(r, FileKey(t)) THEN 1 ELSE 0
                 /\ db'[t][i][UrlField(t)] =
                       IF Accepted(r, FileKey(t))
                       THEN PublicUrl(IF t = "blogs" THEN "blog" ELSE t,
                                      r, FileKey(t))
                       ELSE TextOr(t, r.form, db[t][i][UrlField(t)])
        /\ \A t \in AnsweredOf({"about"}) :
           \A r \in UploadAbout : \A i \in Ids(t) :
              update_about(r.form, r.files, r.ups) =>
                 /\ Attempts = Files(r)
                 /\ \A sl \in AboutSlots :
                       db'.about[i][sl[1]] =
                          IF Accepted(r, sl[2])
                          THEN PublicUrl(SlotFolder(sl), r, sl[2])
                          ELSE FormOr(r.form, sl[1], db.about[i][sl[1]])]_vars

\* An edit of a blog whose upload raised has answered, and the cover image
\* stored by an earlier upload is still stored.
C11_Witness ==
    /\ log = <<"Attempting to upload", "Upload Failed">>
    /\ resp.flash = "Blog updated successfully!"
    /\ \E i \in Ids("blogs") : db.blogs[i].cover_image = "blog/1f_f.png"

----------------------------------------------------------------------------
(* The read flag *)

\* C12: over every step of every route a stored message that is read stays
\* stored and read; mark_message_read on a message that is already read
\* changes no table and no id counter; and mark_message_read on the message
\* i leaves every other message as it was, flag and content.
C12_ReadMonotonic ==
    [][/\ \A i \in Ids("messages") :
             db.messages[i].read =>
                i \in DOMAIN db'.messages /\ db'.messages[i].read
       /\ "unread_count" \in DOMAIN resp'.json =>
             \A i \in Ids("messages") :
                mark_message_read(i) =>
                   /\ db.messages[i].read => db' = db /\ seq' = seq
                   /\ DOMAIN db'.messages = DOMAIN db.messages
                   /\ \A j \in Ids("messages") \ {i} :
                         db'.messages[j] = db.messages[j]]_vars

\* mark_message_read has answered that no message is unread, with two
\* messages stored: the one marked first is still read after the second mark.
C12_Witness ==
    /\ "unread_count" \in DOMAIN resp.json
    /\ resp.json.unread_count = 0
    /\ Cardinality(Ids("messages")) = 2
    /\ Unread = {}

----------------------------------------------------------------------------
(* The local user records *)

StoredFor(e) == {i \in DOMAIN db'.users : db'.users[i].email = e}

\* C13: after every step no email has two User records, and a login the
\* identity provider accepted for the email e ends with exactly one User
\* record with email e stored and the session bound to it, however the
\* logins and the create-admin runs interleave.
C13_OneUserPerEmail ==
    [][/\ \A e \in Emails : Cardinality(StoredFor(e)) <= 1
       /\ \A w \in Workers :
             Serving(w, "login") /\ login_commit(w) =>
                /\ Cardinality(StoredFor(txn[w].form.email)) = 1
                /\ \E i \in StoredFor(txn[w].form.email) :
                      session' = LoggedIn(i)]_vars
====
